---- MODULE Spec2Model ----
(***************************************************************************)
(* A model of package errors (errors.go): error values carrying a message, *)
(* an integer code and a captured stack, the annotation operations that    *)
(* build chains of them (WithStack, WithMessage, Wrap and the formatted     *)
(* variants), SetCode, and the traversals Cause, Error, Code and Format.   *)
(*                                                                         *)
(* A Go pointer is a record [t, p]: t the pointed-to type, p the address   *)
(* (an index into heap), p = 0 the nil pointer.  An error interface value  *)
(* is the same record: converting a pointer to the interface keeps its     *)
(* dynamic type, so a nil pointer of a concrete type becomes an interface  *)
(* value that is NOT equal to nil.  The nil interface is [t = "nil"].      *)
(* A text is a sequence of string tokens.                                  *)
(***************************************************************************)
EXTENDS Integers, Sequences, FiniteSets, TLC

VARIABLES heap, last, setCalled

vars == <<heap, last, setCalled>>

\* Bounds of the model.
MaxNodes == 3
MaxDepth == 5

\* The message and code inputs the operations are called with.
Msg == {<<"a">>, <<"b">>}
OneMsg == {<<"m">>}
Template == <<"f", "%v">>
FormatArgs == {<<>>, <<"1">>}
OneArgs == {<<"1">>}
Codes == {1, 2}
ForeignCodes == {2}

\* ErrCodeNotDefined is declared outside errors.go; the sentinel of the
\* specification ("0/sentinel").
ErrCodeNotDefined == 0

NilIface == [t |-> "nil", p |-> 0]

LibTypes == {"MsgCodeErr", "StackError", "CauseMsgCodeError"}
ForeignTypes == {"Opaque", "CodeOnly"}

\* err == nil on an interface value: true of the nil interface only.
IsNil(e) == e.t = "nil"

\* A nil pointer of a library type held in a non-nil interface value.
IsTypedNil(e) == e.t \in LibTypes /\ e.p = 0

\* Conversion of a returned pointer to the error interface.
ToIface(ptr) == [t |-> ptr.t, p |-> ptr.p]

\* The type assertions err.(interface{ Code() int }), err.(interface{
\* SetCode(int) error }) and err.(causer): decided by the dynamic type.
HasCode(e) == e.t \in LibTypes \cup {"CodeOnly"}
HasSetCode(e) == e.t \in LibTypes

\* A CauseMsgCodeError without a Cause method.
IsCauserStackOnly(e) == e.t = "StackError"

IsCauser(e) == e.t \in {"StackError", "CauseMsgCodeError"}

\* callers(): the frames of the capture, innermost first: the call site,
\* then the program's entry.
callers(site) == <<site, 0>>

\* fmt.Sprintf restricted to %v verbs: each verb takes the next argument.
RECURSIVE Sprintf(_, _)
Sprintf(format, args) ==
  IF format = <<>>
    THEN IF args = <<>> THEN <<>> ELSE <<"%!(EXTRA)">>
    ELSE IF Head(format) = "%v"
           THEN IF args = <<>>
                  THEN <<"%!v(MISSING)">> \o Sprintf(Tail(format), args)
                  ELSE <<Head(args)>> \o Sprintf(Tail(format), Tail(args))
           ELSE <<Head(format)>> \o Sprintf(Tail(format), args)

MsgCodeErrNode(m, c, site, by) ==
  [kind |-> "MsgCodeErr", msg |-> m, code |-> c, cause |-> NilIface,
   stack |-> callers(site), by |-> by]

StackErrorNode(e, site, by) ==
  [kind |-> "StackError", msg |-> <<>>, code |-> 0, cause |-> e,
   stack |-> callers(site), by |-> by]

CauseMsgCodeErrorNode(e, m, c, by) ==
  [kind |-> "CauseMsgCodeError", msg |-> m, code |-> c, cause |-> e,
   stack |-> <<>>, by |-> by]

ForeignNode(k, m, c) ==
  [kind |-> k, msg |-> m, code |-> c, cause |-> NilIface,
   stack |-> <<>>, by |-> "foreign"]

Ptr(h, p) == [t |-> h[p].kind, p |-> p]

\* The results of the methods: ok = FALSE is a nil-pointer panic.
Ok(v) == [ok |-> TRUE, v |-> v]
PanicText == [ok |-> FALSE, v |-> <<>>]
PanicInt == [ok |-> FALSE, v |-> 0]

\* An Error that joins without the separator.
CauseMsgCodeErrorErrorNoSep(m, inner) == m \o inner

\* CauseMsgCodeError.Error: w.msg + ": " + w.cause.Error()
CauseMsgCodeErrorError(m, inner) == m \o <<": ">> \o inner

\* e.Error()
RECURSIVE ErrorOf(_, _)
ErrorOf(h, e) ==
  IF e.p = 0 THEN PanicText
  ELSE IF e.t = "StackError" THEN ErrorOf(h, h[e.p].cause)
  ELSE IF e.t = "CauseMsgCodeError"
    THEN LET r == ErrorOf(h, h[e.p].cause)
         IN IF r.ok THEN Ok(CauseMsgCodeErrorError(h[e.p].msg, r.v)) ELSE PanicText
  ELSE Ok(h[e.p].msg)

\* A StackError.Code that answers -1 for a cause without Code().
NoCodeResultMinusOne == 0 - 1

\* StackError.Code's result when the cause exposes no Code().
NoCodeResult == 0

\* A CauseMsgCodeError.Code that asks the cause instead of its own field.
RECURSIVE CodeOfLive(_, _)
CodeOfLive(h, e) ==
  IF e.p = 0 THEN PanicInt
  ELSE IF e.t = "StackError"
    THEN IF HasCode(h[e.p].cause) THEN CodeOfLive(h, h[e.p].cause)
         ELSE Ok(0)
  ELSE IF e.t = "CauseMsgCodeError" /\ HasCode(h[e.p].cause)
    THEN CodeOfLive(h, h[e.p].cause)
  ELSE Ok(h[e.p].code)

\* e.Code(), for e with HasCode(e)
RECURSIVE CodeOf(_, _)
CodeOf(h, e) ==
  IF e.p = 0 THEN PanicInt
  ELSE IF e.t = "StackError"
    THEN IF HasCode(h[e.p].cause) THEN CodeOf(h, h[e.p].cause)
         ELSE Ok(NoCodeResult)
  ELSE Ok(h[e.p].code)

\* An annotation that never reads the code of its cause.
InitialCodeSentinel(h, e) == Ok(ErrCodeNotDefined)

\* The code an annotation operation gives the node it builds.
InitialCode(h, e) == IF HasCode(e) THEN CodeOf(h, e) ELSE Ok(ErrCodeNotDefined)

\* A StackError.SetCode that does not pass the call on.
SetCodePathOwn(h, e) == <<e.p>>

\* e.SetCode(J), for e with HasSetCode(e): the receivers of the call and of
\* the calls it delegates to, outermost first; a 0 at the end is a call on a
\* nil pointer, which panics.
RECURSIVE SetCodePath(_, _)
SetCodePath(h, e) ==
  IF e.p = 0 THEN <<0>>
  ELSE IF e.t = "StackError"
    THEN IF HasSetCode(h[e.p].cause)
           THEN <<e.p>> \o SetCodePath(h, h[e.p].cause)
           ELSE <<e.p>>
  ELSE <<e.p>>

\* The node whose code field the call assigns, 0 when it assigns none.
SetCodeTarget(h, e) ==
  LET path == SetCodePath(h, e)
      q == path[Len(path)]
  IN IF q # 0 /\ h[q].kind # "StackError" THEN q ELSE 0

SetCodePanics(h, e) ==
  LET path == SetCodePath(h, e) IN path[Len(path)] = 0

\* A Cause that descends once (an if in place of the for).
CauseLoopOnce(h, e, n) ==
  IF IsNil(e) \/ ~IsCauser(e) THEN [ok |-> TRUE, v |-> e, steps |-> n]
  ELSE IF e.p = 0 THEN [ok |-> FALSE, v |-> NilIface, steps |-> n]
  ELSE [ok |-> TRUE, v |-> h[e.p].cause, steps |-> n + 1]

\* Cause(err): the value the loop ends on and the number of descents.
RECURSIVE CauseLoop(_, _, _)
CauseLoop(h, e, n) ==
  IF IsNil(e) \/ ~IsCauser(e) THEN [ok |-> TRUE, v |-> e, steps |-> n]
  ELSE IF e.p = 0 THEN [ok |-> FALSE, v |-> NilIface, steps |-> n]
  ELSE CauseLoop(h, h[e.p].cause, n + 1)

Cause(h, e) == CauseLoop(h, e, 0)

\* stack.Format under %+v: each frame on a line of its own.
RECURSIVE StackFormat(_)
StackFormat(st) ==
  IF st = <<>> THEN <<>>
  ELSE <<"\n", "pc" \o ToString(Head(st))>> \o StackFormat(Tail(st))

\* A Format that writes the own message before the cause.
CauseMsgCodeErrorFormatFirst(inner, node) == node.msg \o <<"\n">> \o inner

MsgCodeErrFormat(node) == node.msg \o StackFormat(node.stack)
StackErrorFormat(inner, node) == inner \o StackFormat(node.stack)
CauseMsgCodeErrorFormat(inner, node) == inner \o <<"\n">> \o node.msg

\* fmt.Fprintf(s, "%+v", e).  A nil value, and a nil pointer whose Format
\* panics (fmt recovers it), are printed as <nil>; an error without a
\* Format method is printed by its Error().
RECURSIVE FormatPlusV(_, _)
FormatPlusV(h, e) ==
  IF e.p = 0 THEN <<"<nil>">>
  ELSE IF e.t = "MsgCodeErr" THEN MsgCodeErrFormat(h[e.p])
  ELSE IF e.t = "StackError"
    THEN StackErrorFormat(FormatPlusV(h, h[e.p].cause), h[e.p])
  ELSE IF e.t = "CauseMsgCodeError"
    THEN CauseMsgCodeErrorFormat(FormatPlusV(h, h[e.p].cause), h[e.p])
  ELSE h[e.p].msg

(***************************************************************************)
(* State.  heap: the error values allocated so far.  last: the operation   *)
(* just performed, its operand, the pointer it returned and whether it     *)
(* panicked.  setCalled: the nodes that have been the receiver of a        *)
(* SetCode call, direct or delegated.                                      *)
(***************************************************************************)
NilPtr == [t |-> "nil", p |-> 0]

Record(op, e, m, c, res, panicked) ==
  [op |-> op, arg |-> e, msg |-> m, code |-> c, res |-> res, panic |-> panicked]

Init ==
  /\ heap = <<>>
  /\ last = Record("init", NilIface, <<>>, 0, NilPtr, FALSE)
  /\ setCalled = {}

Nodes == 1..Len(heap)

\* The values a caller can pass: nil, a pointer to an allocated error, or
\* the pointer the previous call returned (nil pointers included).
Operands == {NilIface} \cup {Ptr(heap, p) : p \in Nodes} \cup {ToIface(last.res)}

New(m) ==
  /\ LET p == Len(heap) + 1 IN
       /\ heap' = Append(heap, MsgCodeErrNode(m, ErrCodeNotDefined, p, "New"))
       /\ last' = Record("New", NilIface, m, 0, [t |-> "MsgCodeErr", p |-> p], FALSE)
  /\ UNCHANGED setCalled

\* Errorf leaves the code field at the zero value of int.
ErrorfCode == 0

Errorf(format, args) ==
  /\ LET p == Len(heap) + 1 IN
       /\ heap' = Append(heap,
                    MsgCodeErrNode(Sprintf(format, args), ErrorfCode, p, "Errorf"))
       /\ last' = Record("Errorf", NilIface, Sprintf(format, args), 0,
                         [t |-> "MsgCodeErr", p |-> p], FALSE)
  /\ UNCHANGED setCalled

\* An error value of a type of the calling program: it exposes Error() only
\* (Opaque), or Error() and Code() but no SetCode (CodeOnly).
Foreign(k, c) ==
  /\ LET p == Len(heap) + 1 IN
       /\ heap' = Append(heap, ForeignNode(k, <<"eof">>, c))
       /\ last' = Record("Foreign", NilIface, <<>>, 0, [t |-> k, p |-> p], FALSE)
  /\ UNCHANGED setCalled

WithStackStep(op, e) ==
  IF IsNil(e)
    THEN /\ last' = Record(op, e, <<>>, 0, [t |-> "StackError", p |-> 0], FALSE)
         /\ UNCHANGED heap
    ELSE /\ LET p == Len(heap) + 1 IN
              /\ heap' = Append(heap, StackErrorNode(e, p, op))
              /\ last' = Record(op, e, <<>>, 0, [t |-> "StackError", p |-> p], FALSE)

WithStack(e) ==
  /\ WithStackStep("WithStack", e)
  /\ UNCHANGED setCalled

WithMessageStep(op, e, m) ==
  IF IsNil(e)
    THEN /\ last' = Record(op, e, m, 0, [t |-> "CauseMsgCodeError", p |-> 0], FALSE)
         /\ UNCHANGED heap
    ELSE LET c == InitialCode(heap, e) IN
         IF ~c.ok
           THEN /\ last' = Record(op, e, m, 0, NilPtr, TRUE)
                /\ UNCHANGED heap
           ELSE /\ LET p == Len(heap) + 1 IN
                     /\ heap' = Append(heap, CauseMsgCodeErrorNode(e, m, c.v, op))
                     /\ last' = Record(op, e, m, 0,
                                  [t |-> "CauseMsgCodeError", p |-> p], FALSE)

WithMessage(e, m) ==
  /\ WithMessageStep("WithMessage", e, m)
  /\ UNCHANGED setCalled

WithMessagef(e, format, args) ==
  /\ WithMessageStep("WithMessagef", e, Sprintf(format, args))
  /\ UNCHANGED setCalled

WrapStep(op, e, m) ==
  IF IsNil(e)
    THEN /\ last' = Record(op, e, m, 0, [t |-> "StackError", p |-> 0], FALSE)
         /\ UNCHANGED heap
    ELSE LET c == InitialCode(heap, e) IN
         IF ~c.ok
           THEN /\ last' = Record(op, e, m, 0, NilPtr, TRUE)
                /\ UNCHANGED heap
           ELSE /\ LET p == Len(heap) + 1
                       inner == [t |-> "CauseMsgCodeError", p |-> p]
                   IN
                     /\ heap' = Append(Append(heap,
                                    CauseMsgCodeErrorNode(e, m, c.v, op)),
                                    StackErrorNode(inner, p + 1, op))
                     /\ last' = Record(op, e, m, 0,
                                  [t |-> "StackError", p |-> p + 1], FALSE)

Wrap(e, m) ==
  /\ WrapStep("Wrap", e, m)
  /\ UNCHANGED setCalled

Wrapf(e, format, args) ==
  /\ WrapStep("Wrapf", e, Sprintf(format, args))
  /\ UNCHANGED setCalled

SeqRange(s) == {s[i] : i \in 1..Len(s)}

\* e.SetCode(J) on a value exposing SetCode.
SetCode(e, J) ==
  /\ HasSetCode(e)
  /\ IF SetCodePanics(heap, e)
       THEN /\ last' = Record("SetCode", e, <<>>, J, NilPtr, TRUE)
            /\ setCalled' = setCalled \cup (SeqRange(SetCodePath(heap, e)) \ {0})
            /\ UNCHANGED heap
       ELSE LET q == SetCodeTarget(heap, e) IN
            /\ heap' = IF q = 0 THEN heap ELSE [heap EXCEPT ![q].code = J]
            /\ setCalled' = setCalled \cup SeqRange(SetCodePath(heap, e))
            /\ last' = Record("SetCode", e, <<>>, J, e, FALSE)

\* The operations a program may perform next, on any value it holds.
Next ==
  \/ \E m \in OneMsg : Len(heap) < MaxNodes /\ New(m)
  \/ \E a \in OneArgs : Len(heap) < MaxNodes /\ Errorf(Template, a)
  \/ \E k \in ForeignTypes, c \in ForeignCodes :
        Len(heap) < MaxNodes /\ Foreign(k, IF k = "Opaque" THEN 0 ELSE c)
  \/ \E e \in Operands : Len(heap) < MaxNodes /\ WithStack(e)
  \/ \E e \in Operands, m \in OneMsg : Len(heap) < MaxNodes /\ WithMessage(e, m)
  \/ \E e \in Operands, m \in OneMsg : Len(heap) + 1 < MaxNodes /\ Wrap(e, m)
  \/ \E e \in Operands, J \in Codes : SetCode(e, J)

Spec == Init /\ [][Next]_vars

\* A program that builds one chain: a first error, then annotations of the
\* value the previous call returned.
HeadOperands ==
  {NilIface, ToIface(last.res)} \cup {Ptr(heap, p) : p \in {Len(heap)} \ {0}}

NextChain ==
  \/ \E m \in Msg : heap = <<>> /\ New(m)
  \/ \E a \in FormatArgs : heap = <<>> /\ Errorf(Template, a)
  \/ \E k \in ForeignTypes, c \in ForeignCodes :
        heap = <<>> /\ Foreign(k, IF k = "Opaque" THEN 0 ELSE c)
  \/ \E e \in HeadOperands : Len(heap) < MaxDepth /\ WithStack(e)
  \/ \E e \in HeadOperands, m \in Msg : Len(heap) < MaxDepth /\ WithMessage(e, m)
  \/ \E e \in HeadOperands, a \in OneArgs :
        Len(heap) < MaxDepth /\ WithMessagef(e, Template, a)
  \/ \E e \in HeadOperands, m \in Msg : Len(heap) + 1 < MaxDepth /\ Wrap(e, m)
  \/ \E e \in HeadOperands, a \in OneArgs :
        Len(heap) + 1 < MaxDepth /\ Wrapf(e, Template, a)

SpecChain == Init /\ [][NextChain]_vars

(***************************************************************************)
(* Properties.                                                             *)
(***************************************************************************)
AnnotOps == {"WithStack", "WithMessage", "WithMessagef", "Wrap", "Wrapf"}
MsgOps == {"WithMessage", "WithMessagef", "Wrap", "Wrapf"}
WrapOps == {"Wrap", "Wrapf"}

\* The nodes of the chain under e, outermost first, following the cause
\* fields down to the node that has no cause (or to a nil pointer).
RECURSIVE ChainNodes(_, _)
ChainNodes(h, e) ==
  IF e.p = 0 THEN <<>> ELSE <<e.p>> \o ChainNodes(h, h[e.p].cause)

\* The value the chain under e ends on: its last node, or a nil pointer.
RECURSIVE ChainEnd(_, _)
ChainEnd(h, e) ==
  IF e.p = 0 \/ IsNil(h[e.p].cause) THEN e ELSE ChainEnd(h, h[e.p].cause)

\* A chain built from genuine errors only: it ends on a node.
Genuine(h, e) == ChainEnd(h, e).p # 0

\* C1: an annotation operation given nil returns nil and allocates nothing;
\* given a cause that points to an error value it returns a pointer to a
\* newly allocated node.
C1_AbsentIffNil ==
  [][last'.op \in AnnotOps =>
       IF IsNil(last'.arg)
         THEN ~last'.panic /\ last'.res.p = 0 /\ heap' = heap
         ELSE last'.arg.p # 0 =>
                /\ ~last'.panic
                /\ last'.res.p \in (1..Len(heap')) \ (1..Len(heap))]_vars

\* C8: the absent result of one annotation operation, passed on as the
\* cause of another, yields absent again: no panic, no node around a nil
\* pointer, and Cause, Error and Code of what was returned do not panic.
C8_AbsenceComposes ==
  /\ (last.op \in AnnotOps /\ IsTypedNil(last.arg)) =>
        (~last.panic /\ last.res.p = 0)
  /\ \A p \in Nodes : ~IsTypedNil(heap[p].cause)
  /\ (last.op \in AnnotOps /\ ~last.panic) =>
        /\ Cause(heap, ToIface(last.res)).ok
        /\ last.res.p # 0 =>
              /\ ErrorOf(heap, ToIface(last.res)).ok
              /\ CodeOf(heap, ToIface(last.res)).ok

\* The values of the chain under e: e itself and every cause beneath it.
RECURSIVE ChainValues(_, _)
ChainValues(h, e) ==
  IF IsNil(e) THEN {}
  ELSE IF e.p = 0 THEN {e}
  ELSE {e} \cup ChainValues(h, h[e.p].cause)

\* C2: an annotation operation returns a head whose Cause is the very
\* value that Cause gave for its operand, and for every error e beneath the
\* operand: whatever was a root cause before the call is the root cause of
\* the new head, and of every older value, after it.
C2_RootCausePreserved ==
  [][(last'.op \in AnnotOps /\ ~IsNil(last'.arg) /\ ~last'.panic) =>
       \A e \in ChainValues(heap, last'.arg) :
         Cause(heap, e).ok =>
           /\ Cause(heap', e).v = Cause(heap, e).v
           /\ Cause(heap', ToIface(last'.res)).ok
           /\ Cause(heap', ToIface(last'.res)).v = Cause(heap, e).v]_vars

\* Two Wraps on top of a Base: Cause of the head is the Base itself.
C2_Witness ==
  /\ Len(heap) = 5 /\ last.op = "Wrap" /\ heap[3].by \in WrapOps
  /\ heap[1].kind = "MsgCodeErr"
  /\ Cause(heap, ToIface(last.res)).v = Ptr(heap, 1)

\* The annotation calls that built the chain under e: its nodes other than
\* the first error, the two nodes of a Wrap counted once.
NOps(h, e) ==
  Cardinality({i \in 1..Len(ChainNodes(h, e)) :
     LET n == h[ChainNodes(h, e)[i]] IN
       /\ n.by \in AnnotOps
       /\ ~(n.by \in WrapOps /\ n.kind = "CauseMsgCodeError")})

NWraps(h, e) ==
  Cardinality({i \in 1..Len(ChainNodes(h, e)) :
     LET n == h[ChainNodes(h, e)[i]] IN
       n.by \in WrapOps /\ n.kind = "StackError"})

\* e is a value some call returned (not the inner node of a Wrap) and its
\* chain stands on a Base.
OnBase(h, e) ==
  /\ ~(h[e.p].by \in WrapOps /\ h[e.p].kind = "CauseMsgCodeError")
  /\ ChainEnd(h, e).p # 0 /\ ChainEnd(h, e).t = "MsgCodeErr"

\* C7 as stated: on a chain built by N annotation calls on top of a Base,
\* Cause makes exactly N descents and returns the Base.
C7_StepsEqualCalls ==
  \A p \in Nodes :
    OnBase(heap, Ptr(heap, p)) =>
      /\ Cause(heap, Ptr(heap, p)).ok
      /\ Cause(heap, Ptr(heap, p)).v = Ptr(heap, 1)
      /\ Cause(heap, Ptr(heap, p)).steps = NOps(heap, Ptr(heap, p))

\* C7 amended: Cause makes one descent per WithStack, WithMessage or
\* WithMessagef call and two per Wrap or Wrapf call, and returns the Base.
C7_StepsEqualNodes ==
  \A p \in Nodes :
    OnBase(heap, Ptr(heap, p)) =>
      /\ Cause(heap, Ptr(heap, p)).ok
      /\ Cause(heap, Ptr(heap, p)).v = Ptr(heap, 1)
      /\ Cause(heap, Ptr(heap, p)).steps
           = NOps(heap, Ptr(heap, p)) + NWraps(heap, Ptr(heap, p))

\* A Wrap and a WithStack on a Base: two calls, three descents.
C7_Witness ==
  /\ Len(heap) = 4 /\ heap[1].kind = "MsgCodeErr"
  /\ heap[3].by = "Wrap" /\ heap[4].by = "WithStack"
  /\ NOps(heap, Ptr(heap, 4)) = 2
  /\ Cause(heap, Ptr(heap, 4)).steps = 3

\* The own messages of the message-carrying nodes of the chain under e,
\* outermost first.
OwnMsgs(h, e) ==
  LET cn == SelectSeq(ChainNodes(h, e), LAMBDA p : h[p].kind # "StackError")
  IN [i \in 1..Len(cn) |-> h[cn[i]].msg]

RECURSIVE JoinColon(_)
JoinColon(ms) ==
  IF ms = <<>> THEN <<>>
  ELSE IF Len(ms) = 1 THEN ms[1]
  ELSE ms[1] \o <<": ">> \o JoinColon(Tail(ms))

\* C3: Error() of WithMessage(e, m) and of Wrap(e, m) is m, ": ", then
\* e.Error(); Error() of WithStack(e) is e.Error(); and the Error() of any
\* chain is the own messages of its message-carrying nodes, outermost first,
\* joined by ": ".
C3_MessageChainLaw ==
  [][/\ (last'.op \in AnnotOps /\ ~IsNil(last'.arg) /\ ErrorOf(heap, last'.arg).ok)
          => /\ ~last'.panic
             /\ ErrorOf(heap', ToIface(last'.res))
                  = IF last'.op \in MsgOps
                      THEN Ok(last'.msg \o <<": ">> \o ErrorOf(heap, last'.arg).v)
                      ELSE ErrorOf(heap, last'.arg)
     /\ \A p \in 1..Len(heap') :
          ErrorOf(heap', Ptr(heap', p)).ok =>
            ErrorOf(heap', Ptr(heap', p)).v = JoinColon(OwnMsgs(heap', Ptr(heap', p)))]_vars

\* WithStack(WithMessage(New("a"), "b")) renders "b: a".
C3_Witness ==
  /\ Len(heap) = 3 /\ last.op = "WithStack" /\ last.res.p = 3
  /\ heap[1].by = "New" /\ heap[1].msg = <<"a">>
  /\ heap[2].by = "WithMessage" /\ heap[2].msg = <<"b">>
  /\ ErrorOf(heap, ToIface(last.res)) = Ok(<<"b", ": ", "a">>)

\* The tokens stack.Format writes for the frames captured so far.
FrameTokens(h) == {"pc" \o ToString(k) : k \in 0..Len(h)}

MsgPart(h, text) ==
  SelectSeq(text, LAMBDA t : t \notin FrameTokens(h) \cup {"\n"})
StackPart(h, text) == SelectSeq(text, LAMBDA t : t \in FrameTokens(h))

RECURSIVE Concat(_)
Concat(ss) == IF ss = <<>> THEN <<>> ELSE Head(ss) \o Concat(Tail(ss))

Reverse(sq) == [i \in 1..Len(sq) |-> sq[Len(sq) + 1 - i]]

\* What the chain under e has to show: the own message of each message-
\* carrying node (for a chain ending on a nil pointer, the <nil> fmt prints
\* for it) and the frames of each captured stack, outermost node first.
ShownMsgs(h, e) ==
  OwnMsgs(h, e) \o (IF Genuine(h, e) THEN <<>> ELSE << <<"<nil>">> >>)
ShownStacks(h, e) ==
  [i \in 1..Len(ChainNodes(h, e)) |->
     Concat([j \in 1..Len(h[ChainNodes(h, e)[i]].stack) |->
              <<"pc" \o ToString(h[ChainNodes(h, e)[i]].stack[j])>>])]

\* C6 as stated: the %+v rendering shows every own message once and every
\* captured stack once, the messages from the outermost node to the Base.
C6_ExtendedOuterToInner ==
  \A p \in Nodes :
    LET out == FormatPlusV(heap, Ptr(heap, p)) IN
      /\ MsgPart(heap, out) = Concat(ShownMsgs(heap, Ptr(heap, p)))
      /\ StackPart(heap, out) = Concat(Reverse(ShownStacks(heap, Ptr(heap, p))))

\* C6 amended: the %+v rendering shows every own message once and every
\* captured stack once, both from the innermost node (the Base message
\* first) to the outermost wrapper (its message last).
C6_ExtendedInnerToOuter ==
  \A p \in Nodes :
    LET out == FormatPlusV(heap, Ptr(heap, p)) IN
      /\ MsgPart(heap, out) = Concat(Reverse(ShownMsgs(heap, Ptr(heap, p))))
      /\ StackPart(heap, out) = Concat(Reverse(ShownStacks(heap, Ptr(heap, p))))

\* Wrap(WithMessage(New("a"), "b"), "a"): three messages, two stacks.
C6_Witness ==
  /\ Len(heap) = 4 /\ last.op = "Wrap"
  /\ heap[1].by = "New" /\ heap[1].msg = <<"a">>
  /\ heap[2].by = "WithMessage" /\ heap[2].msg = <<"b">>
  /\ FormatPlusV(heap, ToIface(last.res))
       = <<"a", "\n", "pc1", "\n", "pc0", "\n", "b", "\n", "a",
           "\n", "pc4", "\n", "pc0">>

\* The first value at or beneath e that is not a stack-only node: where a
\* SetCode call that enters at e ends up.
RECURSIVE Below(_, _)
Below(h, e) ==
  IF e.p # 0 /\ e.t = "StackError" THEN Below(h, h[e.p].cause) ELSE e

Storing(e) == e.p # 0 /\ e.t \in {"MsgCodeErr", "CauseMsgCodeError"}

\* The heads Wrap returned: stack-only nodes over the message node built by
\* the same call.
WrapHeads(h) ==
  {p \in 1..Len(h) : h[p].kind = "StackError" /\ h[p].by \in WrapOps}

\* A SetCode call is made on the wrapper w built by Wrap when it reaches the
\* message node of w, which holds the code of w.
ReachesWrap(h, l, w) ==
  l.op = "SetCode" /\ Below(h, l.arg) = h[w].cause

\* C4: w = Wrap(e, m) has the code e has at that moment, and keeps it in
\* every step that is not a SetCode call on w; w.SetCode(J) returns w, makes
\* w.Code() = J and leaves e.Code() what it was.
C4_CodeInheritance ==
  [][/\ (last'.op \in WrapOps /\ ~last'.panic /\ HasCode(last'.arg)
           /\ ~IsNil(last'.arg))
          => /\ CodeOf(heap', ToIface(last'.res)) = CodeOf(heap, last'.arg)
             /\ CodeOf(heap', last'.arg) = CodeOf(heap, last'.arg)
     /\ \A w \in WrapHeads(heap) :
          LET e == heap[heap[w].cause.p].cause IN
          IF ReachesWrap(heap, last', w)
            THEN (last'.arg = Ptr(heap, w)) =>
                   /\ ~last'.panic /\ last'.res = Ptr(heap, w)
                   /\ CodeOf(heap', Ptr(heap, w)) = Ok(last'.code)
                   /\ HasCode(e) => CodeOf(heap', e) = CodeOf(heap, e)
            ELSE CodeOf(heap', Ptr(heap, w)) = CodeOf(heap, Ptr(heap, w))]_vars

\* e has code 1, w = Wrap(e, m) inherited it, and w.SetCode(2) has just
\* returned: w reads 2, e still reads 1.
C4_Witness ==
  /\ Len(heap) = 3 /\ heap[1].kind = "MsgCodeErr" /\ heap[3].by = "Wrap"
  /\ heap[2].cause = Ptr(heap, 1)
  /\ last.op = "SetCode" /\ last.arg = Ptr(heap, 3) /\ last.code = 2
  /\ CodeOf(heap, Ptr(heap, 1)) = Ok(1)
  /\ CodeOf(heap, Ptr(heap, 3)) = Ok(2)

\* C5: on a chain no node of which has received a SetCode call, standing on
\* a Base built by New or Errorf or on a foreign error without a code
\* accessor, every node that exposes Code() reports ErrCodeNotDefined.
C5_SentinelDefault ==
  \A p \in Nodes :
    LET e == Ptr(heap, p) IN
    (/\ HasCode(e)
     /\ SeqRange(ChainNodes(heap, e)) \cap setCalled = {}
     /\ ChainEnd(heap, e).p # 0
     /\ ChainEnd(heap, e).t \in {"MsgCodeErr", "Opaque"})
      => CodeOf(heap, e) = Ok(ErrCodeNotDefined)

\* A WithStack over a foreign error without a code accessor, and a Base
\* built by Errorf, with no SetCode call made.
C5_Witness ==
  /\ Len(heap) = 3 /\ setCalled = {}
  /\ heap[1].kind = "Opaque" /\ heap[2].by = "WithStack"
  /\ heap[2].cause = Ptr(heap, 1) /\ heap[3].by = "Errorf"
  /\ CodeOf(heap, Ptr(heap, 2)) = Ok(ErrCodeNotDefined)
  /\ CodeOf(heap, Ptr(heap, 3)) = Ok(ErrCodeNotDefined)

StackNodes(h) == {p \in 1..Len(h) : h[p].kind = "StackError"}

\* s.Code() is the Code() of the direct cause of s, and 0 when the cause
\* exposes none.
ReadsCause(h) ==
  \A s \in StackNodes(h) :
    CodeOf(h, Ptr(h, s))
      = IF HasCode(h[s].cause) THEN CodeOf(h, h[s].cause) ELSE Ok(0)

\* C9 as stated, for the calls that return: for s = WithStack(e),
\* s.SetCode(J) returns s and stores nothing in s; when e exposes a setter,
\* e.Code() = J afterwards, as read by every stack-only node over e; when e
\* exposes none, no state changes; and s.Code() is always the Code() of its
\* direct cause (0 when the cause exposes none).
C9_SetCodeReachesCause ==
  [][/\ \A s \in StackNodes(heap) :
          (last'.op = "SetCode" /\ last'.arg = Ptr(heap, s) /\ ~last'.panic) =>
            LET e == heap[s].cause IN
            /\ last'.res = Ptr(heap, s)
            /\ heap'[s] = heap[s]
            /\ IF HasSetCode(e)
                 THEN /\ CodeOf(heap', e) = Ok(last'.code)
                      /\ \A r \in StackNodes(heap) :
                           heap[r].cause = e =>
                             CodeOf(heap', Ptr(heap, r)) = Ok(last'.code)
                 ELSE heap' = heap
     /\ ReadsCause(heap')]_vars

\* C9 amended: s.SetCode(J) stores nothing in s and passes the call down
\* through the stack-only nodes beneath it.  If the first other value
\* reached is a MsgCodeErr or CauseMsgCodeError node, J is stored there, s
\* is returned, and s, e and every stack-only node on the way read J.  If it
\* is a foreign error, no state changes and s is returned.  If it is a nil
\* pointer, the call panics and no state changes.  s.Code() is always the
\* Code() of its direct cause (0 when the cause exposes none).
C9_SetCodeDelegation ==
  [][/\ \A s \in StackNodes(heap) :
          (last'.op = "SetCode" /\ last'.arg = Ptr(heap, s)) =>
            LET b == Below(heap, Ptr(heap, s)) IN
            IF b.p = 0
              THEN last'.panic /\ heap' = heap
              ELSE /\ ~last'.panic
                   /\ last'.res = Ptr(heap, s)
                   /\ IF Storing(b)
                        THEN /\ heap' = [heap EXCEPT ![b.p].code = last'.code]
                             /\ \A r \in StackNodes(heap) :
                                  Below(heap, Ptr(heap, r)) = b =>
                                    CodeOf(heap', Ptr(heap, r)) = Ok(last'.code)
                             /\ HasCode(heap[s].cause) =>
                                  CodeOf(heap', heap[s].cause) = Ok(last'.code)
                        ELSE heap' = heap
     /\ ReadsCause(heap')]_vars

\* s = WithStack(e) and r = WithStack(e) over a Base e: s.SetCode(2) has
\* returned s, and e and r read 2.
C9_Witness ==
  /\ Len(heap) = 3 /\ heap[1].kind = "MsgCodeErr"
  /\ heap[2].by = "WithStack" /\ heap[2].cause = Ptr(heap, 1)
  /\ heap[3].by = "WithStack" /\ heap[3].cause = Ptr(heap, 1)
  /\ last.op = "SetCode" /\ last.arg = Ptr(heap, 2) /\ last.res = Ptr(heap, 2)
  /\ last.code = 2
  /\ CodeOf(heap, Ptr(heap, 1)) = Ok(2)
  /\ CodeOf(heap, Ptr(heap, 3)) = Ok(2)

MsgNodes(h) == {p \in 1..Len(h) : h[p].kind = "CauseMsgCodeError"}

\* C10: the code of a message-carrying wrapper w is the one its cause had
\* when w was built; a SetCode call that does not reach w itself (one on its
\* cause, or on a stack-only wrapper of its cause) leaves w.Code() as it
\* was; no step changes the message or the cause of w, and only a SetCode
\* call that reaches w changes its code.
C10_CodeSnapshot ==
  [][/\ \A w \in MsgNodes(heap) :
          /\ heap'[w].msg = heap[w].msg
          /\ heap'[w].cause = heap[w].cause
          /\ ~(last'.op = "SetCode" /\ Below(heap, last'.arg) = Ptr(heap, w)) =>
                /\ heap'[w].code = heap[w].code
                /\ CodeOf(heap', Ptr(heap, w)) = CodeOf(heap, Ptr(heap, w))
     /\ \A w \in MsgNodes(heap') \ MsgNodes(heap) :
          CodeOf(heap', Ptr(heap', w))
            = IF HasCode(heap'[w].cause) THEN CodeOf(heap, heap'[w].cause)
                                         ELSE Ok(ErrCodeNotDefined)]_vars

\* w = WithMessage(e, m) took the code of e; then SetCode(2) on a stack-only
\* wrapper of e changed the code of e and left that of w.
C10_Witness ==
  /\ Len(heap) = 3 /\ heap[1].kind = "MsgCodeErr"
  /\ heap[2].by = "WithMessage" /\ heap[2].cause = Ptr(heap, 1)
  /\ heap[3].by = "WithStack" /\ heap[3].cause = Ptr(heap, 1)
  /\ last.op = "SetCode" /\ last.arg = Ptr(heap, 3) /\ last.code = 2
  /\ CodeOf(heap, Ptr(heap, 1)) = Ok(2)
  /\ CodeOf(heap, Ptr(heap, 2)) = Ok(ErrCodeNotDefined)

====
